---- MODULE Spec2Model ----
(***************************************************************************)
(* Model of examples/demo.rs of egui-tao: the Gpu context, the Renderer,   *)
(* and the DemoApp event handler driven by the tao event loop.             *)
(***************************************************************************)
EXTENDS Integers, Sequences, FiniteSets, TLC

\* ------------------------------------------------------------------ bounds
\* window widths and heights range over 0..MaxDim
MaxDim == 2
\* window scale factors range over 1..MaxScale
MaxScale == 2
\* longest list of formats the surface capabilities report
MaxFormats == 3

Dims == 0..MaxDim
PosDims == 1..MaxDim
Scales == 1..MaxScale
\* egui::TextureId values: the font atlas and one user texture stand for any
\* two distinct ids (ids are only compared for equality)
TexIds == {"Managed(0)", "User(0)"}

\* no size known yet
NoSize == <<>>

\* pixel formats a surface may report: two sRGB ones and two that are not
Formats == {"Bgra8UnormSrgb", "Rgba8UnormSrgb", "Bgra8Unorm", "Rgba8Unorm"}
PresentModes == {"Fifo"}

VARIABLES
    loop_state,        \* position of main / the tao event loop
    control_flow,      \* the ControlFlow the loop reads after a callback
    gpu,               \* Gpu: surface_config and what the surface is configured to
    last_size,         \* DemoApp.last_size
    pixels_per_point,  \* the GUI adapter's pixels-per-point setting
    window,            \* tao Window: scale factor, pending redraw request
    textures,          \* egui_wgpu::Renderer texture cache: the ids it holds a texture for
    screen_descriptor, \* ScreenDescriptor built by the last redraw
    textures_delta,    \* FullOutput.textures_delta of the last redraw
    frame_log,         \* steps the last redraw performed, in order
    last_event,        \* the event the last callback invocation received
    applied_size,      \* creation size, then size of the latest Resized event not consumed
    surface_formats    \* surface_capabilities.formats as Gpu::new_async read it; a local
                       \* of the constructor, gone once main goes on

vars == <<loop_state, control_flow, gpu, last_size, pixels_per_point, window,
          textures, screen_descriptor, textures_delta, frame_log, last_event,
          applied_size, surface_formats>>

\* ------------------------------------------------------------ Gpu (pure)

\* wgpu rejects a surface configuration of zero area
ZeroArea(width, height) == width = 0 \/ height = 0

\* self.surface.configure(&self.device, &self.surface_config)
Configure(g) == [g EXCEPT !.surf_width = g.width, !.surf_height = g.height]

\* slip: the height field is assigned from width
GpuResize_HeightFromWidth(g, width, height) ==
    LET stored == [g EXCEPT !.width = width, !.height = width]
    IN  IF ZeroArea(width, height) THEN stored ELSE Configure(stored)

\* slip: width and height are stored crosswise
GpuResize_Swapped(g, width, height) ==
    LET stored == [g EXCEPT !.width = height, !.height = width]
    IN  IF ZeroArea(width, height) THEN stored ELSE Configure(stored)

\* slip: resize builds a fresh configuration instead of updating the stored one
GpuResize_FreshConfig(g, width, height) ==
    LET stored == [g EXCEPT !.width = width, !.height = height,
                            !.format = "none", !.present_mode = "none"]
    IN  IF ZeroArea(width, height) THEN stored ELSE Configure(stored)

\* Gpu::resize: surface_config.width / .height are assigned, then the surface
\* is configured; a zero-area configuration makes configure panic
GpuResize(g, width, height) ==
    LET stored == [g EXCEPT !.width = width, !.height = height]
    IN  IF ZeroArea(width, height) THEN stored ELSE Configure(stored)

\* Renderer::resize forwards to Gpu::resize
RendererResize(g, width, height) == GpuResize(g, width, height)

NoGpu == [created |-> FALSE, width |-> 0, height |-> 0, format |-> "none",
          present_mode |-> "none", surf_width |-> 0, surf_height |-> 0]

\* ------------------------------------------------------------------ events

NoEvent == [kind |-> "None", consumed |-> FALSE, key |-> "None",
            state |-> "None", size |-> NoSize, requested_redraw |-> FALSE,
            frame |-> 0]

NoDelta == [set |-> {}, free |-> {}]

NoDescriptor == [size_in_pixels |-> NoSize, pixels_per_point |-> 0]

Last(seq) == IF seq = <<>> THEN "" ELSE seq[Len(seq)]

Ev(kind, consumed) == [NoEvent EXCEPT !.kind = kind, !.consumed = consumed]

Init ==
    /\ loop_state = "Startup"
    /\ control_flow = "Poll"
    /\ gpu = NoGpu
    /\ last_size = <<0, 0>>
    /\ \E s \in Scales :
           window = [scale_factor |-> s, redraw_pending |-> FALSE]
    /\ pixels_per_point = 1    \* egui::Context::default()
    /\ textures = {}
    /\ screen_descriptor = NoDescriptor
    /\ textures_delta = NoDelta
    /\ frame_log = <<>>
    /\ last_event = NoEvent
    /\ applied_size = NoSize
    /\ surface_formats = <<>>

\* --------------------------------------------------------------- startup

\* Gpu::new_async: .find(|f| !f.is_srgb()).unwrap_or(formats[0])
is_srgb(f) == f \in {"Bgra8UnormSrgb", "Rgba8UnormSrgb"}

RECURSIVE Find(_, _)
Find(formats, i) ==
    IF i > Len(formats) THEN 0
    ELSE IF ~is_srgb(formats[i]) THEN i
    ELSE Find(formats, i + 1)

\* slip: the search for a non-sRGB format is left out
SelectFormat_Head(formats) == formats[1]

SelectFormat(formats) ==
    IF Find(formats, 1) # 0 THEN formats[Find(formats, 1)] ELSE formats[1]

\* surface_capabilities.formats: a non-empty list
FormatLists == UNION {[1..n -> Formats] : n \in 1..MaxFormats}

\* Gpu::new_async after both awaits succeeded
GpuNewAsync(formats, present_mode, width, height) ==
    Configure([NoGpu EXCEPT !.created = TRUE,
                           !.width = width,
                           !.height = height,
                           !.format = SelectFormat(formats),
                           !.present_mode = present_mode])

\* slip: a failed request_device is not treated as fatal
StartupOutcome_IgnoresDevice(adapter_ok, device_ok) ==
    IF adapter_ok THEN "Created" ELSE "StartupFailed"

\* .await.expect("Failed to request adapter!") and
\* .await.expect("Failed to request a device!"): either failure panics
StartupOutcome(adapter_ok, device_ok) ==
    IF adapter_ok /\ device_ok THEN "Created" ELSE "StartupFailed"

\* DemoApp::new: reads window.inner_size() (twice, with no event handled in
\* between, so both reads give inner_size), hands the window's scale factor
\* to egui_tao::State::new, then blocks on Renderer::new.
\* request_adapter / request_device are .expect()ed: a failure panics.
DemoAppNew ==
    /\ loop_state = "Startup"
    /\ \E inner_size \in PosDims \X PosDims,
          adapter_ok \in BOOLEAN, device_ok \in BOOLEAN,
          formats \in FormatLists, present_mode \in PresentModes :
          /\ loop_state' = StartupOutcome(adapter_ok, device_ok)
          /\ IF adapter_ok /\ device_ok
             THEN /\ gpu' = GpuNewAsync(formats, present_mode,
                                        inner_size[1], inner_size[2])
                  /\ last_size' = inner_size
                  /\ applied_size' = inner_size
                  /\ surface_formats' = formats
             ELSE UNCHANGED <<gpu, last_size, applied_size, surface_formats>>
    /\ pixels_per_point' = window.scale_factor
    /\ UNCHANGED <<control_flow, window, textures,
                   screen_descriptor, textures_delta, frame_log, last_event>>

\* slip: the redraw request is left out
request_redraw_Dropped(w) == w

\* self.window.request_redraw()
request_redraw(w) == [w EXCEPT !.redraw_pending = TRUE]

\* main: app.window.request_redraw(); event_loop.run(...)
MainRun ==
    /\ loop_state = "Created"
    /\ window' = request_redraw(window)
    /\ loop_state' = "Running"
    /\ surface_formats' = <<>>
    /\ UNCHANGED <<control_flow, gpu, last_size, pixels_per_point, textures,
                   screen_descriptor, textures_delta, frame_log, last_event,
                   applied_size>>

\* ------------------------------------------------------- the event loop

\* event_loop.run: after a callback returns, ControlFlow::Exit stops the loop
AfterCallback(cf) == IF cf = "Exit" THEN "Exiting" ELSE "Running"

\* slip: the closure's reset to Poll takes effect after Exit
RunControlFlow_NotSticky(current, written) == written

\* event_loop.run: ControlFlow::Exit is sticky, a later write by the closure
\* (*control_flow = ControlFlow::Poll) does not leave it
RunControlFlow(current, written) == IF current = "Exit" THEN "Exit" ELSE written

\* screen_descriptor, textures_delta and the frame's steps are locals of the
\* RedrawRequested arm: a callback for any other event has none
NoFrame ==
    /\ screen_descriptor' = NoDescriptor
    /\ textures_delta' = NoDelta
    /\ frame_log' = <<>>

\* egui_tao::State::on_window_event(...).consumed
on_window_event_consumed == BOOLEAN

\* if let KeyCode::Escape = event.physical_key: event.state is not tested
ExitsOnKey(key, state) == key = "Escape"

\* slip: the early return on a consumed event is missing
ReachesMatch_Always(consumed) == TRUE

\* if self.gui_state.on_window_event(..).consumed { return; }
ReachesMatch(consumed) == ~consumed

\* slip: the CloseRequested arm does not set ControlFlow::Exit
HandleControlFlow_NoCloseArm(kind, key, state, consumed) ==
    IF ReachesMatch(consumed) /\ kind = "KeyboardInput" /\ ExitsOnKey(key, state)
    THEN "Exit" ELSE "Poll"

\* the ControlFlow handle_event leaves behind for a window event; the closure
\* in main has set it to Poll just before
HandleControlFlow(kind, key, state, consumed) ==
    IF /\ ReachesMatch(consumed)
       /\ \/ kind = "KeyboardInput" /\ ExitsOnKey(key, state)
          \/ kind = "CloseRequested"
    THEN "Exit" ELSE "Poll"

\* WindowEvent::KeyboardInput
KeyboardInput ==
    /\ loop_state = "Running"
    /\ NoFrame
    /\ \E key \in {"Escape", "KeyA"}, state \in {"Pressed", "Released"},
          consumed \in on_window_event_consumed :
          /\ last_event' = [Ev("KeyboardInput", consumed) EXCEPT
                               !.key = key, !.state = state]
          /\ control_flow' = RunControlFlow(control_flow,
                                 HandleControlFlow("KeyboardInput", key, state, consumed))
    /\ loop_state' = AfterCallback(control_flow')
    /\ UNCHANGED <<gpu, last_size, pixels_per_point, window, textures,
                   applied_size, surface_formats>>

\* WindowEvent::Resized(PhysicalSize { width, height })
Resized ==
    /\ loop_state = "Running"
    /\ NoFrame
    /\ \E width \in Dims, height \in Dims, consumed \in on_window_event_consumed :
          /\ last_event' = [Ev("Resized", consumed) EXCEPT !.size = <<width, height>>]
          /\ applied_size' = IF consumed THEN applied_size ELSE <<width, height>>
          /\ control_flow' = RunControlFlow(control_flow,
                                 HandleControlFlow("Resized", "None", "None", consumed))
          /\ IF ~ReachesMatch(consumed)
             THEN /\ loop_state' = AfterCallback(control_flow')
                  /\ UNCHANGED <<gpu, last_size, pixels_per_point>>
             ELSE /\ gpu' = RendererResize(gpu, width, height)
                  /\ IF ZeroArea(width, height)
                     THEN \* surface.configure panics before last_size is written
                          /\ loop_state' = "Panicked"
                          /\ UNCHANGED <<last_size, pixels_per_point>>
                     ELSE /\ loop_state' = AfterCallback(control_flow')
                          /\ last_size' = <<width, height>>
                          /\ pixels_per_point' = window.scale_factor
    /\ UNCHANGED <<window, textures, surface_formats>>

\* WindowEvent::CloseRequested
CloseRequested ==
    /\ loop_state = "Running"
    /\ NoFrame
    /\ \E consumed \in on_window_event_consumed :
          /\ last_event' = Ev("CloseRequested", consumed)
          /\ control_flow' = RunControlFlow(control_flow,
                                 HandleControlFlow("CloseRequested", "None", "None", consumed))
    /\ loop_state' = AfterCallback(control_flow')
    /\ UNCHANGED <<gpu, last_size, pixels_per_point, window, textures,
                   applied_size, surface_formats>>

\* WindowEvent::ScaleFactorChanged: the window reports a new scale factor;
\* handle_event has no arm for it
ScaleFactorChanged ==
    /\ loop_state = "Running"
    /\ NoFrame
    /\ \E s \in Scales, consumed \in on_window_event_consumed :
          /\ window' = [window EXCEPT !.scale_factor = s]
          /\ last_event' = Ev("ScaleFactorChanged", consumed)
          /\ control_flow' = RunControlFlow(control_flow,
                                 HandleControlFlow("ScaleFactorChanged", "None", "None", consumed))
    /\ loop_state' = AfterCallback(control_flow')
    /\ UNCHANGED <<gpu, last_size, pixels_per_point, textures,
                   applied_size, surface_formats>>

\* any other WindowEvent (pointer, focus, ...): the `_ => ()` arm
OtherEvent ==
    /\ loop_state = "Running"
    /\ NoFrame
    /\ \E consumed \in on_window_event_consumed :
          /\ last_event' = Ev("Other", consumed)
          /\ control_flow' = RunControlFlow(control_flow,
                                 HandleControlFlow("Other", "None", "None", consumed))
    /\ loop_state' = AfterCallback(control_flow')
    /\ UNCHANGED <<gpu, last_size, pixels_per_point, window, textures,
                   applied_size, surface_formats>>

\* Event::LoopDestroyed: the last callback after ControlFlow::Exit. The
\* closure writes Poll, handle_event ignores the event, and the loop, whose
\* Exit is sticky, discards the write and returns.
LoopDestroyed ==
    /\ loop_state = "Exiting"
    /\ NoFrame
    /\ last_event' = Ev("LoopDestroyed", FALSE)
    /\ control_flow' = RunControlFlow(control_flow, "Poll")
    /\ loop_state' = IF control_flow' = "Exit" THEN "Exited" ELSE "Running"
    /\ UNCHANGED <<gpu, last_size, pixels_per_point, window, textures,
                   applied_size, surface_formats>>

\* ------------------------------------------------------------- rendering

\* egui_renderer.update_texture(device, queue, id, image_delta): afterwards the
\* cache holds a texture for id (the pixels written are not modelled)
update_texture(cache, id) == cache \cup {id}

\* slip: freeing one texture drops the whole cache
free_texture_ClearsAll(cache, id) == {}

\* egui_renderer.free_texture(id)
free_texture(cache, id) == cache \ {id}

\* for (id, image_delta) in &textures_delta.set { update_texture(..) }
\* (set is given by the ids it lists)
RECURSIVE ApplySet(_, _)
ApplySet(cache, set) ==
    IF set = {} THEN cache
    ELSE LET id == CHOOSE i \in set : TRUE
         IN  ApplySet(update_texture(cache, id), set \ {id})

\* for id in &textures_delta.free { free_texture(id) }
RECURSIVE ApplyFree(_, _)
ApplyFree(cache, free) ==
    IF free = {} THEN cache
    ELSE LET id == CHOOSE i \in free : TRUE
         IN  ApplyFree(free_texture(cache, id), free \ {id})

\* slip: the free loop runs before the set loop
ApplyTexturesDelta_FreesFirst(cache, delta) ==
    ApplySet(ApplyFree(cache, delta.free), delta.set)

\* render_frame: the set loop runs before the free loop
ApplyTexturesDelta(cache, delta) == ApplyFree(ApplySet(cache, delta.set), delta.free)

\* FullOutput.textures_delta as egui's end_pass may produce it: the ids to
\* set and the ids to free, in any combination
TexturesDeltas == [set : SUBSET TexIds, free : SUBSET TexIds]

\* slip: the platform output is handled after tessellation
GuiPassSteps_PlatformOutputLast ==
    <<"take_egui_input", "begin_pass", "build_ui", "end_pass", "tessellate",
      "handle_platform_output">>

\* FullOutput.pixels_per_point of a pass: the adapter's setting, which
\* State::new and set_pixels_per_point write
end_pass_pixels_per_point == pixels_per_point

\* steps of handle_event's RedrawRequested arm before it calls render_frame
GuiPassSteps == <<"take_egui_input", "begin_pass", "build_ui", "end_pass",
                  "handle_platform_output", "tessellate">>

\* slip: the render pass is begun before the surface image is acquired
RenderFrameSteps_PassBeforeAcquire(acquire_ok) ==
    <<"apply_textures_delta", "update_buffers", "begin_render_pass",
      "get_current_texture">>
    \o (IF acquire_ok
        THEN <<"render", "submit", "present">>
        ELSE <<"panic">>)

\* slip: the surface image is presented before the commands are submitted
RenderFrameSteps_PresentBeforeSubmit(acquire_ok) ==
    <<"apply_textures_delta", "update_buffers", "get_current_texture">>
    \o (IF acquire_ok
        THEN <<"begin_render_pass", "render", "present", "submit">>
        ELSE <<"panic">>)

\* steps of Renderer::render_frame; get_current_texture().expect(..) panics
\* when the surface image cannot be acquired
RenderFrameSteps(acquire_ok) ==
    <<"apply_textures_delta", "update_buffers", "get_current_texture">>
    \o (IF acquire_ok
        THEN <<"begin_render_pass", "render", "submit", "present">>
        ELSE <<"panic">>)

\* slip: size_in_pixels is built as [height, width]
ScreenDescriptor_Transposed(size, scale_factor) ==
    [size_in_pixels |-> <<size[2], size[1]>>, pixels_per_point |-> scale_factor]

\* let screen_descriptor = { let (width, height) = self.last_size; ... }
ScreenDescriptor(size, scale_factor) ==
    [size_in_pixels |-> <<size[1], size[2]>>, pixels_per_point |-> scale_factor]

\* the window hands a RedrawRequested event to the loop: a pending
\* request_redraw is served by it
Delivered(w) == [w EXCEPT !.redraw_pending = FALSE]

\* frame tells a redraw from the redraw right before it
NextFrame == IF last_event.kind = "RedrawRequested" THEN 1 - last_event.frame ELSE 0

\* Event::RedrawRequested
RedrawRequested ==
    /\ loop_state = "Running"
    /\ textures_delta' \in TexturesDeltas
    /\ textures' = ApplyTexturesDelta(textures, textures_delta')
    /\ \E acquire_ok \in BOOLEAN :
          /\ screen_descriptor' = ScreenDescriptor(last_size, window.scale_factor)
          /\ IF acquire_ok
             THEN /\ frame_log' = GuiPassSteps \o RenderFrameSteps(TRUE)
                                      \o <<"request_redraw">>
                  /\ window' = request_redraw(Delivered(window))
                  /\ last_event' = [Ev("RedrawRequested", FALSE) EXCEPT
                                       !.requested_redraw = TRUE,
                                       !.frame = NextFrame]
                  /\ loop_state' = AfterCallback(RunControlFlow(control_flow, "Poll"))
             ELSE /\ frame_log' = GuiPassSteps \o RenderFrameSteps(FALSE)
                  /\ window' = Delivered(window)
                  /\ last_event' = [Ev("RedrawRequested", FALSE) EXCEPT
                                       !.frame = NextFrame]
                  /\ loop_state' = "Panicked"
    /\ control_flow' = RunControlFlow(control_flow, "Poll")
    /\ UNCHANGED <<gpu, last_size, pixels_per_point, applied_size,
                   surface_formats>>

Next ==
    \/ DemoAppNew
    \/ MainRun
    \/ KeyboardInput
    \/ Resized
    \/ CloseRequested
    \/ ScaleFactorChanged
    \/ OtherEvent
    \/ RedrawRequested
    \/ LoopDestroyed

Spec == Init /\ [][Next]_vars

\* a redraw the application requested is eventually delivered (ControlFlow::Poll
\* never blocks the loop)
DeliverRequestedRedraw == window.redraw_pending /\ RedrawRequested

LiveSpec == Init /\ [][Next]_vars /\ WF_vars(DeliverRequestedRedraw)

\* ------------------------------------------------------------- properties

ConfiguredSize == <<gpu.width, gpu.height>>

Unconsumed(kind) == last_event.kind = kind /\ ~last_event.consumed

\* C1 as stated: right after a Resized event has been processed, the stored
\* surface configuration has the dimensions that event carried.
C1_Original ==
    last_event.kind = "Resized" => ConfiguredSize = last_event.size

\* C1 amended: once the Gpu exists, the stored surface configuration has the
\* dimensions of the most recent Resized event the GUI adapter did not
\* consume, or the creation size when there was none.
C1_Amended ==
    gpu.created => ConfiguredSize = applied_size

C1_Witness ==
    /\ Unconsumed("Resized")
    /\ loop_state = "Running"
    /\ ConfiguredSize = <<MaxDim, 1>>
    /\ textures = {"User(0)"}

\* C2: a step that handles a consumed window event leaves the control flow,
\* the loop state, last_size, the Gpu and pixels_per_point as they were.
C2_ConsumedNoHandling ==
    [][last_event'.consumed =>
          /\ control_flow' = control_flow
          /\ loop_state' = loop_state
          /\ last_size' = last_size
          /\ gpu' = gpu
          /\ pixels_per_point' = pixels_per_point]_vars

C2_Witness ==
    /\ last_event.kind = "CloseRequested"
    /\ last_event.consumed
    /\ loop_state = "Running"
    /\ control_flow = "Poll"

\* C3: whenever the event just processed is a CloseRequested the adapter did
\* not consume, the control flow is Exit and the loop is Exiting.
C3_CloseExits ==
    Unconsumed("CloseRequested") => control_flow = "Exit" /\ loop_state = "Exiting"

C3_Witness ==
    /\ Unconsumed("CloseRequested")
    /\ loop_state = "Exiting"
    /\ textures # {}
    /\ pixels_per_point = MaxScale

\* C4 as stated: the loop is Exiting only when the event just processed is an
\* unconsumed CloseRequested or an unconsumed press of Escape.
C4_ExitOnlyOnCloseOrEscapePress ==
    loop_state = "Exiting" =>
        \/ Unconsumed("CloseRequested")
        \/ /\ Unconsumed("KeyboardInput")
           /\ last_event.key = "Escape"
           /\ last_event.state = "Pressed"

C6_RedrawSizeMatchesConfig ==
    last_event.kind = "RedrawRequested" =>
        /\ screen_descriptor.size_in_pixels = ConfiguredSize
        /\ screen_descriptor.size_in_pixels = applied_size

\* a redraw of a surface one pixel wide, at the largest scale factor
C6_Witness ==
    /\ last_event.kind = "RedrawRequested"
    /\ loop_state = "Running"
    /\ pixels_per_point = MaxScale
    /\ screen_descriptor.size_in_pixels = <<1, MaxDim>>

\* C7: in a running loop, Gpu::resize with the stored dimensions returns the
\* Gpu unchanged and does not fail, and for every width and height a second
\* resize to the same dimensions returns what the first one returned.
C7_ResizeIdempotent ==
    (gpu.created /\ loop_state = "Running") =>
        /\ ~ZeroArea(gpu.width, gpu.height)
        /\ GpuResize(gpu, gpu.width, gpu.height) = gpu
        /\ \A w \in Dims, h \in Dims :
               GpuResize(GpuResize(gpu, w, h), w, h) = GpuResize(gpu, w, h)

C7_Witness ==
    /\ Unconsumed("Resized")
    /\ loop_state = "Running"
    /\ ConfiguredSize = <<1, MaxDim>>
    /\ <<gpu.surf_width, gpu.surf_height>> = <<1, MaxDim>>

\* a step that is a RedrawRequested callback running to its end (every
\* callback overwrites last_event)
CompletedRedraw ==
    /\ loop_state = "Running"
    /\ last_event'.kind = "RedrawRequested"
    /\ loop_state' = "Running"

\* C8: a redraw handled to completion has requested the next one, a running
\* loop always has a redraw request pending, and a behaviour either handles
\* redraws to completion again and again or leaves Running (exit or panic).
C8_ContinuousRedraw ==
    /\ [](last_event.kind = "RedrawRequested" /\ loop_state = "Running"
            => last_event.requested_redraw /\ window.redraw_pending)
    /\ [](loop_state = "Running" => window.redraw_pending)
    /\ ([]<><<CompletedRedraw>>_vars \/ <>[](loop_state # "Running"))

C8_Witness ==
    /\ last_event.kind = "RedrawRequested"
    /\ loop_state = "Running"
    /\ last_event.requested_redraw
    /\ window.redraw_pending
    /\ Last(frame_log) = "request_redraw"

C10_StartupFatal ==
    /\ [](last_event.kind # "None" \/ frame_log # <<>> \/ loop_state = "Running"
            => gpu.created)
    /\ [](loop_state = "StartupFailed" =>
            /\ ~gpu.created
            /\ last_event = NoEvent
            /\ frame_log = <<>>
            /\ ~window.redraw_pending)
    /\ [][loop_state # "StartupFailed"]_vars

C10_Witness ==
    /\ loop_state = "StartupFailed"
    /\ ~gpu.created

\* positions of the formats of a list that are not sRGB
NonSrgbAt(formats) == {i \in 1..Len(formats) : ~is_srgb(formats[i])}

\* C11: when the Gpu has just been created from a non-empty list of supported
\* formats, the configured format occurs in the list; it is the format at the
\* smallest position holding a non-sRGB format when there is such a position,
\* and the first format of the list when all of them are sRGB.
C11_FormatSelection ==
    loop_state = "Created" =>
        /\ surface_formats # <<>>
        /\ \E i \in 1..Len(surface_formats) : gpu.format = surface_formats[i]
        /\ IF NonSrgbAt(surface_formats) # {}
           THEN \E i \in NonSrgbAt(surface_formats) :
                    /\ \A j \in NonSrgbAt(surface_formats) : i <= j
                    /\ gpu.format = surface_formats[i]
           ELSE gpu.format = surface_formats[1]

\* the first non-sRGB format is neither the head of the list nor its last
\* non-sRGB format
C11_Witness ==
    /\ loop_state = "Created"
    /\ surface_formats = <<"Rgba8UnormSrgb", "Rgba8Unorm", "Bgra8Unorm">>
    /\ gpu.format = "Rgba8Unorm"

\* C12 as stated: whenever the event just processed is a Resized the adapter
\* did not consume, last_size, the stored surface configuration and the size
\* the surface is configured to are the event's size, and pixels_per_point is
\* the window's scale factor.
C12_ResizePropagates ==
    Unconsumed("Resized") =>
        /\ last_size = last_event.size
        /\ ConfiguredSize = last_event.size
        /\ <<gpu.surf_width, gpu.surf_height>> = last_event.size
        /\ pixels_per_point = window.scale_factor

\* the steps a frame log lists
Steps(log) == {log[i] : i \in DOMAIN log}

\* C13: a redraw that did not present (the surface image could not be
\* acquired) stopped at the acquisition: it began no render pass, issued no
\* draw, submitted nothing, requested no further redraw, leaves no redraw
\* pending and ends the process, from which no further step is taken.
C13_AcquireFailureFatal ==
    /\ [](last_event.kind = "RedrawRequested" /\ "present" \notin Steps(frame_log) =>
            /\ "get_current_texture" \in Steps(frame_log)
            /\ Last(frame_log) = "panic"
            /\ Steps(frame_log) \cap {"begin_render_pass", "render", "submit",
                                      "request_redraw"} = {}
            /\ ~last_event.requested_redraw
            /\ ~window.redraw_pending
            /\ loop_state = "Panicked")
    /\ [][loop_state # "Panicked"]_vars

\* the acquisition failed in a frame whose texture deltas were already applied
C13_Witness ==
    /\ last_event.kind = "RedrawRequested"
    /\ Last(frame_log) = "panic"
    /\ loop_state = "Panicked"
    /\ textures = {"Managed(0)"}

\* C14: every redraw leaves in the texture cache exactly the ids it did not
\* free that were held before or that it set, so an id set and freed in the
\* same batch is absent, a freed id stays absent until a later batch sets it,
\* and a set id stays present until a later batch frees it; no other step
\* changes the cache.
C14_TextureCacheLifetime ==
    [][IF last_event'.kind = "RedrawRequested"
       THEN \A id \in TexIds :
               id \in textures' <=>
                   /\ id \notin textures_delta'.free
                   /\ (id \in textures_delta'.set \/ id \in textures)
       ELSE textures' = textures]_vars

\* one batch both sets and frees Managed(0), which was not cached before, and
\* sets User(0) anew
C14_Witness ==
    /\ last_event.kind = "RedrawRequested"
    /\ textures_delta = [set |-> {"Managed(0)", "User(0)"}, free |-> {"Managed(0)"}]
    /\ textures = {"User(0)"}
    /\ loop_state = "Running"

\* positions of a step in a frame log
At(log, step) == {i \in DOMAIN log : log[i] = step}

\* every step of chain occurs exactly once in log, in the order of chain
InOrder(log, chain) ==
    /\ \A k \in DOMAIN chain : Cardinality(At(log, chain[k])) = 1
    /\ \A k \in 1..(Len(chain) - 1) :
           \A i \in At(log, chain[k]), j \in At(log, chain[k + 1]) : i < j

\* C15: a redraw that presented performed, once each and in this order:
\* applying the texture deltas, uploading the buffers, acquiring the surface
\* image, beginning the render pass, drawing, submitting, presenting.
C15_RenderFrameOrder ==
    "present" \in Steps(frame_log) =>
        InOrder(frame_log, <<"apply_textures_delta", "update_buffers",
                             "get_current_texture", "begin_render_pass",
                             "render", "submit", "present">>)

\* a frame that set both textures has been presented
C15_Witness ==
    /\ last_event.kind = "RedrawRequested"
    /\ "present" \in Steps(frame_log)
    /\ textures_delta = [set |-> TexIds, free |-> {}]
    /\ loop_state = "Running"

\* C16: a redraw that ran to its end performed, once each and in this order:
\* pulling the input, beginning the pass, building the UI, ending the pass,
\* handling the platform output, tessellating, render_frame (from applying
\* the texture deltas to presenting) and requesting the next redraw; a redraw
\* cut short by a panic performed a prefix of that cycle with its pass ended;
\* a callback for any other event began no pass and rendered nothing.
C16_RedrawLifecycle ==
    /\ last_event.kind = "RedrawRequested" =>
          /\ InOrder(frame_log, <<"take_egui_input", "begin_pass", "build_ui",
                                  "end_pass", "handle_platform_output",
                                  "tessellate", "apply_textures_delta">>)
          /\ frame_log[1] = "take_egui_input"
          /\ loop_state # "Panicked" =>
                /\ InOrder(frame_log, <<"tessellate", "apply_textures_delta",
                                        "present", "request_redraw">>)
                /\ Last(frame_log) = "request_redraw"
    /\ last_event.kind # "RedrawRequested" => frame_log = <<>>

\* a completed redraw cycle right after another one
C16_Witness ==
    /\ last_event.kind = "RedrawRequested"
    /\ last_event.frame = 1
    /\ Last(frame_log) = "request_redraw"
    /\ Len(frame_log) = 14
    /\ loop_state = "Running"

\* C17: once the Gpu exists, a step changes it only when it handles a Resized
\* event the adapter did not consume, and no step changes its format or its
\* present mode.
C17_GpuMutatedOnlyByResize ==
    [][gpu.created =>
          /\ gpu'.created
          /\ gpu'.format = gpu.format
          /\ gpu'.present_mode = gpu.present_mode
          /\ (gpu' # gpu => last_event'.kind = "Resized" /\ ~last_event'.consumed)]_vars

\* an unconsumed resize has been applied to a Gpu that keeps the format and
\* the present mode it was created with
C17_Witness ==
    /\ Unconsumed("Resized")
    /\ loop_state = "Running"
    /\ ConfiguredSize = <<MaxDim, MaxDim>>
    /\ gpu.format = "Rgba8Unorm"
    /\ gpu.present_mode = "Fifo"
    /\ textures = TexIds

\* C18 as stated: the surface configuration Gpu::resize stores and hands to
\* surface.configure never has a zero width or a zero height.
C18_NoZeroAreaConfigure ==
    gpu.created => ~ZeroArea(gpu.width, gpu.height)

\* C19 as stated: whenever a redraw has just run, the pixels_per_point of its
\* screen descriptor (the window's scale factor) is the pixels_per_point its
\* layout pass returned and its tessellation used.
C19_DescriptorMatchesLayout ==
    last_event.kind = "RedrawRequested" =>
        screen_descriptor.pixels_per_point = end_pass_pixels_per_point
====
